---- MODULE Spec2Model ----
(***************************************************************************)
(* Portfolio dashboard (src/portfolio_dashboard_react.jsx): the holdings   *)
(* ledger, the settings, the price fetcher and the refresh scheduler of    *)
(* the PortfolioDashboard component, as a state machine.                   *)
(*                                                                         *)
(* Conventions.                                                            *)
(*  - A JavaScript string that the code inspects character by character    *)
(*    (form inputs, symbols, the provider's price field) is a sequence of  *)
(*    one-character strings.  Strings that are only tested for emptiness   *)
(*    or compared (apiKey, provider) are TLA+ strings.                     *)
(*  - A JavaScript number is an integer here; NaN is the value NaN below.  *)
(*    Fractions, exponents and Infinity are outside the alphabets used.    *)
(*  - A nullable number (lastPrice, the result of fetchPrice) is Null or   *)
(*    Some(n).                                                             *)
(*  - One step of the model is one task of the browser's event loop: an    *)
(*    event handler or timer callback together with the promise            *)
(*    continuations (microtasks), the re-render and the effects that run   *)
(*    before the next task.                                                *)
(*  - The labels name, sector and dateBuy of a holding are never read by   *)
(*    the operations modelled and are left out of the record.              *)
(***************************************************************************)
EXTENDS Integers, Sequences, FiniteSets, TLC

VARIABLES
    mounted,        \* the component has rendered and run its effects
    holdings,       \* useState holdings (line 54): the ledger, newest first
    settings,       \* useState settings (line 63)
    loadingPrices,  \* useState loadingPrices (line 81)
    lastUpdated,    \* useState lastUpdated (line 82): Null or Some(timestamp)
    timers,         \* the browser's armed interval timers
    intervalRef,    \* useRef intervalRef.current (line 83): Null or Some(handle)
    inflight,       \* fetchAllPrices calls suspended at await Promise.all
    now,            \* the clock read by Date.now()
    lastDone,       \* history: the refresh cycle completed by the last step
    storage,        \* localStorage: the strings under STORAGE_KEY and SETTINGS_KEY
    call            \* a call of a pure function: its arguments and its result

sched == <<mounted, holdings, settings, loadingPrices, lastUpdated, timers,
           intervalRef, inflight, now, lastDone, storage>>
vars == <<sched, call>>

-----------------------------------------------------------------------------
(* Bounds of the model *)

MaxRows == 1        \* rows addHolding may reach while the scheduler runs
MaxLedger == 2      \* rows addHolding may reach when only the ledger is edited
MaxInflight == 2    \* refresh cycles in flight at once
MaxClock == 1       \* the clock runs 0 .. MaxClock
MaxStrLen == 2      \* characters in a numeric input string
MaxPrice == 2       \* largest numeric price field in a response

-----------------------------------------------------------------------------
(* Values *)

Null == <<>>
Some(x) == <<x>>
NaN == [nan |-> TRUE]
Num(n) == [nan |-> FALSE, v |-> n]
None == [none |-> TRUE]

RECURSIVE SeqsUpTo(_, _)
SeqsUpTo(S, n) ==
    IF n = 0 THEN {<<>>}
    ELSE LET shorter == SeqsUpTo(S, n - 1)
         IN  shorter \cup {Append(s, c) : s \in shorter, c \in S}

Digits == {"0", "1", "2", "6"}
DigitVal(c) == CASE c = "0" -> 0 [] c = "1" -> 1 [] c = "2" -> 2 [] c = "6" -> 6

\* the longest prefix of s made of digits
RECURSIVE DigitPrefix(_)
DigitPrefix(s) ==
    IF s = <<>> \/ Head(s) \notin Digits THEN <<>>
    ELSE <<Head(s)>> \o DigitPrefix(Tail(s))

RECURSIVE Decimal(_, _)
Decimal(ds, acc) ==
    IF ds = <<>> THEN acc ELSE Decimal(Tail(ds), 10 * acc + DigitVal(Head(ds)))

\* parseFloat on strings over Digits, "-" and letters: an optional sign, then
\* the longest run of digits; NaN when there is no digit.
ParseFloat(s) ==
    LET neg == s # <<>> /\ Head(s) = "-"
        body == IF neg THEN Tail(s) ELSE s
        ds == DigitPrefix(body)
    IN  IF ds = <<>> THEN NaN
        ELSE Num(IF neg THEN 0 - Decimal(ds, 0) ELSE Decimal(ds, 0))

\* JavaScript !x for a number: true for NaN and for 0
NotNumber(x) == x.nan \/ x.v = 0

\* String.prototype.toUpperCase on the symbol alphabet
UpperChar(c) == CASE c = "b" -> "B" [] c = "k" -> "K" [] OTHER -> c
ToUpperCase(s) == [i \in DOMAIN s |-> UpperChar(s[i])]

Includes(s, c) == \E i \in DOMAIN s : s[i] = c

-----------------------------------------------------------------------------
(* Settings *)

DEFAULT_SETTINGS ==
    [provider |-> "twelvedata", apiKey |-> "", priceSuffix |-> <<".", "J", "K">>,
     refreshIntervalSec |-> Num(60)]

\* parseInt on the same alphabet: an optional sign, then the longest run of
\* digits; NaN when there is no digit.
ParseInt(s) ==
    LET neg == s # <<>> /\ Head(s) = "-"
        ds == DigitPrefix(IF neg THEN Tail(s) ELSE s)
    IN  IF ds = <<>> THEN NaN
        ELSE Num(IF neg THEN 0 - Decimal(ds, 0) ELSE Decimal(ds, 0))

\* the delay handed to setInterval: (settings.refreshIntervalSec || 60) * 1000
Period(sett) ==
    IF NotNumber(sett.refreshIntervalSec) THEN 60 * 1000
    ELSE sett.refreshIntervalSec.v * 1000

-----------------------------------------------------------------------------
(* Price fetcher: fetchPrice *)

\* What the transport can answer to axios.get.
\*   neterr   the request fails (axios rejects)
\*   non2xx   a non-2xx status (axios rejects)
\*   nodata   a 2xx response whose body is empty
\*   noprice  a body without a price field
\*   str      a body whose price field is the string s
\*   num      a body whose price field is the number n
Resp(kind, s, n) == [kind |-> kind, s |-> s, n |-> n]

PriceChars == {"-", "1", "2", "x"}

Responses ==
    {Resp(k, <<>>, 0) : k \in {"neterr", "non2xx", "nodata", "noprice"}}
    \cup {Resp("str", s, 0) : s \in SeqsUpTo(PriceChars, MaxStrLen)}
    \cup {Resp("num", <<>>, n) : n \in 0 .. MaxPrice}

\* the transport is not asked
NoResp == Resp("none", <<>>, 0)

\* the outcome of a block of code: it returns value or it throws
Return(v, called) == [threw |-> FALSE, value |-> v, called |-> called]
Throw(called) == [threw |-> TRUE, value |-> Null, called |-> called]

\* a normalization that appends the suffix to every symbol
QuerySymbolAppend(symbol, sett) == symbol \o sett.priceSuffix

\* lines 106-110: the symbol sent to the provider
QuerySymbol(symbol, sett) ==
    IF sett.priceSuffix # <<>> /\ ~Includes(symbol, ".")
    THEN symbol \o sett.priceSuffix
    ELSE symbol

\* lines 113-115: does fetchPrice reach axios.get
IssuesCall(sett) == sett.provider = "twelvedata" /\ sett.apiKey # ""

\* lines 116-122: the try block from the answer of axios.get on
FetchPriceResume(resp) ==
    IF resp.kind \in {"neterr", "non2xx"} THEN Throw(TRUE)
    ELSE IF resp.kind = "str" /\ resp.s # <<>> /\ ~ParseFloat(resp.s).nan
         THEN Return(Some(ParseFloat(resp.s).v), TRUE)
    ELSE IF resp.kind = "num" /\ resp.n # 0
         THEN Return(Some(resp.n), TRUE)
    ELSE Throw(TRUE)

\* lines 113-126: the try block
FetchPriceTry(sett, resp) ==
    IF sett.provider = "twelvedata"
    THEN IF sett.apiKey = "" THEN Throw(FALSE) ELSE FetchPriceResume(resp)
    ELSE Return(Null, FALSE)

\* a catch clause that lets the error through
CatchRethrow(r) == r

\* lines 127-130: the catch clause turns every throw into a returned null
Catch(r) == IF r.threw THEN Return(Null, r.called) ELSE r

\* fetchPrice, lines 104-131; resp is the answer the transport would give,
\* query the symbol put in the request when one is made
FetchPrice(symbol, sett, resp) ==
    LET r == Catch(FetchPriceTry(sett, resp))
    IN  [threw |-> r.threw, value |-> r.value, called |-> r.called,
         query |-> IF r.called THEN Some(QuerySymbol(symbol, sett)) ELSE Null]

-----------------------------------------------------------------------------
(* Persistence: localStorage and the JSON conversions *)

\* What localStorage.getItem can return for a key.
\*   Absent      the key is not there (null)
\*   EmptyText   the empty string
\*   Garbage     a string that is not JSON
\*   Text(v)     a string that is the JSON text of the value v
Absent == [kind |-> "absent"]
EmptyText == [kind |-> "empty"]
Garbage == [kind |-> "garbage"]
Text(v) == [kind |-> "json", value |-> v]

\* JSON values
JNull == [t |-> "null"]
JNumber == [t |-> "number"]
JObj(fields) == [t |-> "object", fields |-> fields]
JArr(rows) == [t |-> "array", rows |-> rows]

\* JSON.stringify of a number: NaN has no JSON text and is written as null
StringifyNumber(x) == IF x.nan THEN JNull ELSE x

\* JSON.stringify(holdings), line 86
StringifyHoldings(hs) == Text(JArr(hs))

\* JSON.stringify(settings), line 91
StringifySettings(s) ==
    Text(JObj([s EXCEPT !.refreshIntervalSec = StringifyNumber(@)]))

\* JSON.parse(raw)
JsonParse(raw) ==
    IF raw.kind = "json" THEN Return(raw.value, FALSE) ELSE Throw(FALSE)

\* the useState initializers, lines 54-61 and 63-70: raw ? JSON.parse(raw) :
\* fallback inside a try whose catch returns the fallback
LoadState(raw, fallback) ==
    IF raw.kind \in {"absent", "empty"} THEN fallback
    ELSE LET r == JsonParse(raw)
         IN  IF r.threw THEN fallback ELSE r.value

\* the first render on the loaded values throws a TypeError: holdings.reduce
\* (line 180) exists on arrays only, and settings.refreshIntervalSec (lines
\* 99, 348) cannot be read off null
RenderThrows(h, s) == h.t # "array" \/ s.t = "null"

\* PortfolioDashboard() up to its first render, on the two stored strings
StartUp(rawHoldings, rawSettings) ==
    LET h == LoadState(rawHoldings, JArr(<<>>))
        s == LoadState(rawSettings, JObj(DEFAULT_SETTINGS))
    IN  [holdings |-> h, settings |-> s, crashed |-> RenderThrows(h, s)]

\* the effects of lines 85-92 after a render: each runs when its state was set
SaveEffects(store, setH, setS, hs, s) ==
    [holdings |-> IF setH THEN StringifyHoldings(hs) ELSE store.holdings,
     settings |-> IF setS THEN StringifySettings(s) ELSE store.settings]

-----------------------------------------------------------------------------
(* Refresh cycle: fetchAllPrices *)

\* line 139: one row of the merge
MergeRow(h, price) ==
    [h EXCEPT !.lastPrice = IF price # Null THEN price ELSE h.lastPrice]

\* a merge written as a functional update of the ledger of the moment
MergeIntoCurrent(snap, prices) ==
    [i \in DOMAIN holdings |->
        IF i \in DOMAIN prices THEN MergeRow(holdings[i], prices[i])
        ELSE holdings[i]]

\* lines 136-141: the array Promise.all resolves to
Merge(snap, prices) == [i \in DOMAIN snap |-> MergeRow(snap[i], prices[i])]

Slots == 1 .. MaxInflight
Busy == {s \in Slots : inflight[s] # None}
FreeSlots == Slots \ Busy
MinOf(S) == CHOOSE x \in S : \A y \in S : x <= y

\* history: every cycle in flight has now overlapped another cycle
Overlap(cs) ==
    [s \in DOMAIN cs |->
        IF cs[s] = None THEN None ELSE [cs[s] EXCEPT !.overlapped = TRUE]]

\* history: every cycle in flight has now seen the ledger edited
Edit(cs) ==
    [s \in DOMAIN cs |->
        IF cs[s] = None THEN None ELSE [cs[s] EXCEPT !.edited = TRUE]]

\* the promise of one fetchPrice call inside Promise.all
Pending == [st |-> "pending", price |-> Null]

\* a fetch that rejects when no price is available
SettledOrRejected(r) ==
    IF r.threw \/ r.value = Null THEN [st |-> "rejected", price |-> Null]
    ELSE [st |-> "done", price |-> r.value]

Settled(r) ==
    IF r.threw THEN [st |-> "rejected", price |-> Null]
    ELSE [st |-> "done", price |-> r.value]

\* lines 142-144: the continuation after await Promise.all, run by the step
\* that settles the last fetch of the cycle
FinishCycle(snap, prices, overlapped, edited, rest) ==
    /\ holdings' = Merge(snap, prices)
    /\ loadingPrices' = FALSE
    /\ lastUpdated' = Some(now)
    /\ inflight' = Overlap(rest)
    /\ lastDone' = [snap |-> snap, prices |-> prices, prev |-> holdings,
                    overlapped |-> overlapped, edited |-> edited]

\* Promise.all rejected: lines 142-144 never run and the indicator set by
\* line 135 stays
Rejected ==
    /\ loadingPrices' = TRUE
    /\ lastDone' = None
    /\ UNCHANGED <<holdings, lastUpdated, inflight>>

\* fetchAllPrices without the test of line 134: Promise.all of no promise
\* resolves at once
FetchAllPricesUnguarded(snap, sett) ==
    IF Len(snap) = 0 \/ ~IssuesCall(sett)
    THEN FinishCycle(snap, [i \in DOMAIN snap |-> Null], Busy # {}, FALSE,
                     inflight)
    ELSE /\ FreeSlots # {}
         /\ inflight' = [Overlap(inflight) EXCEPT ![MinOf(FreeSlots)] =
                [snap |-> snap, res |-> [i \in DOMAIN snap |-> Pending],
                 overlapped |-> Busy # {}, edited |-> FALSE]]
         /\ loadingPrices' = TRUE
         /\ UNCHANGED <<holdings, lastUpdated>>
         /\ lastDone' = None

\* fetchAllPrices (lines 133-145) called through a closure that captured the
\* ledger snap and the settings sett.  When no fetch reaches the network every
\* promise is already settled and the continuation runs in the same task.
FetchAllPrices(snap, sett) ==
    IF Len(snap) = 0
    THEN /\ UNCHANGED <<holdings, loadingPrices, lastUpdated, inflight>>
         /\ lastDone' = None
    ELSE IF ~IssuesCall(sett)
    THEN LET res == [i \in DOMAIN snap |->
                        Settled(FetchPrice(snap[i].symbol, sett, NoResp))]
         IN  IF \A i \in DOMAIN res : res[i].st = "done"
             THEN FinishCycle(snap, [i \in DOMAIN res |-> res[i].price],
                              Busy # {}, FALSE, inflight)
             ELSE Rejected
    ELSE /\ FreeSlots # {}
         /\ inflight' = [Overlap(inflight) EXCEPT ![MinOf(FreeSlots)] =
                [snap |-> snap, res |-> [i \in DOMAIN snap |-> Pending],
                 overlapped |-> Busy # {}, edited |-> FALSE]]
         /\ loadingPrices' = TRUE
         /\ UNCHANGED <<holdings, lastUpdated>>
         /\ lastDone' = None

\* a network answer arrives for fetch i of the cycle in slot s; the step that
\* settles the last fetch resolves Promise.all and runs lines 142-144; a
\* rejected fetch leaves Promise.all rejected and the cycle never completes
SettleFetch(s, i, resp) ==
    /\ mounted
    /\ inflight[s] # None
    /\ i \in DOMAIN inflight[s].res
    /\ inflight[s].res[i].st = "pending"
    /\ LET c == inflight[s]
           res == [c.res EXCEPT ![i] = Settled(Catch(FetchPriceResume(resp)))]
       IN  IF \A j \in DOMAIN res : res[j].st = "done"
           THEN FinishCycle(c.snap, [j \in DOMAIN res |-> res[j].price],
                            c.overlapped, c.edited,
                            [inflight EXCEPT ![s] = None])
           ELSE /\ inflight' = [inflight EXCEPT ![s] = [c EXCEPT !.res = res]]
                /\ lastDone' = None
                /\ UNCHANGED <<holdings, loadingPrices, lastUpdated>>
    /\ storage' = SaveEffects(storage, lastDone' # None, FALSE, holdings', settings)
    /\ UNCHANGED <<mounted, settings, timers, intervalRef, now, call>>

-----------------------------------------------------------------------------
(* Scheduler: the effect on [settings], lines 94-102 *)

\* a clearInterval that cancels nothing
ClearIntervalNothing(ts, ref) == ts

\* clearInterval(ref): ref is Null or Some(handle)
ClearInterval(ts, ref) == {t \in ts : ref = Null \/ t.handle # ref[1]}

\* setInterval returns a handle no armed timer uses
FreshHandle(ts) == MinOf(1 .. (Cardinality(ts) + 1) \ {t.handle : t \in ts})

\* lines 96-99 after the cleanup of line 100: the closure fetchAllPrices of the
\* render that runs the effect captures the ledger and the settings of that
\* render, and the same closure is handed to setInterval
RunEffect(snap, sett, armed) ==
    /\ FetchAllPrices(snap, sett)
    /\ LET cleared == ClearInterval(armed, intervalRef)
           h == FreshHandle(cleared)
       IN  /\ timers' = cleared \cup
                  {[handle |-> h, snap |-> snap, sett |-> sett,
                    period |-> Period(sett)]}
           /\ intervalRef' = Some(h)

Mount ==
    /\ ~mounted
    /\ mounted' = TRUE
    /\ RunEffect(holdings, settings, timers)
    /\ storage' = SaveEffects(storage, TRUE, TRUE, holdings', settings)
    /\ UNCHANGED <<settings, now, call>>

\* updateSetting (lines 175-177), the re-render, the cleanup of the previous
\* effect (line 100) and the effect of the new render
UpdateSetting(key, value) ==
    /\ mounted
    /\ settings' = [settings EXCEPT ![key] = value]
    /\ RunEffect(holdings, settings', ClearInterval(timers, intervalRef))
    /\ storage' = SaveEffects(storage, lastDone' # None, TRUE, holdings', settings')
    /\ UNCHANGED <<mounted, now, call>>

\* the interval timer t fires: it calls the closure it was armed with
TimerTick(t) ==
    /\ mounted
    /\ t \in timers
    /\ FetchAllPrices(t.snap, t.sett)
    /\ storage' = SaveEffects(storage, lastDone' # None, FALSE, holdings', settings)
    /\ UNCHANGED <<mounted, settings, timers, intervalRef, now, call>>

\* the buttons Refresh Prices (line 279) and Fetch Prices Now (line 358) call
\* the closure of the current render
ManualRefresh ==
    /\ mounted
    /\ FetchAllPrices(holdings, settings)
    /\ storage' = SaveEffects(storage, lastDone' # None, FALSE, holdings', settings)
    /\ UNCHANGED <<mounted, settings, timers, intervalRef, now, call>>

-----------------------------------------------------------------------------
(* Ledger edits *)

\* addHolding (lines 147-168) on the form contents symbol, qty, priceBuy
AddHolding(symbol, qtyIn, priceIn) ==
    /\ mounted
    /\ LET qty == ParseFloat(qtyIn)
           priceBuy == ParseFloat(priceIn)
       IN  IF symbol = <<>> \/ NotNumber(qty) \/ NotNumber(priceBuy)
           THEN UNCHANGED <<holdings, inflight, storage>>
           ELSE /\ holdings' =
                     <<[id |-> now, symbol |-> ToUpperCase(symbol),
                        qty |-> qty.v, priceBuy |-> priceBuy.v,
                        totalBuy |-> qty.v * priceBuy.v,
                        lastPrice |-> Null]>> \o holdings
                /\ inflight' = Edit(inflight)
                /\ storage' = SaveEffects(storage, TRUE, FALSE, holdings', settings)
    /\ lastDone' = None
    /\ UNCHANGED <<mounted, settings, loadingPrices, lastUpdated, timers,
                   intervalRef, now, call>>

\* removeHolding (lines 170-173), the confirm dialog accepted
RemoveHolding(id) ==
    /\ mounted
    /\ holdings' = SelectSeq(holdings, LAMBDA x : x.id # id)
    /\ inflight' = Edit(inflight)
    /\ storage' = SaveEffects(storage, TRUE, FALSE, holdings', settings)
    /\ lastDone' = None
    /\ UNCHANGED <<mounted, settings, loadingPrices, lastUpdated, timers,
                   intervalRef, now, call>>

\* the Reset Data button, line 357: localStorage.removeItem(STORAGE_KEY), then
\* setHoldings([]), whose re-render runs the effect of lines 85-88
ResetData ==
    /\ mounted
    /\ holdings' = <<>>
    /\ inflight' = Edit(inflight)
    /\ storage' = SaveEffects([storage EXCEPT !.holdings = Absent], TRUE, FALSE,
                              holdings', settings)
    /\ lastDone' = None
    /\ UNCHANGED <<mounted, settings, loadingPrices, lastUpdated, timers,
                   intervalRef, now, call>>

\* time passes
ClockTick ==
    /\ now < MaxClock
    /\ now' = now + 1
    /\ lastDone' = None
    /\ UNCHANGED <<mounted, holdings, settings, loadingPrices, lastUpdated,
                   timers, intervalRef, inflight, storage, call>>

-----------------------------------------------------------------------------
(* Specification of the scheduler *)

\* a ledger that an earlier session left in storage
StoredHolding(id) ==
    [id |-> id, symbol |-> <<"B">>, qty |-> 1, priceBuy |-> 1, totalBuy |-> 1,
     lastPrice |-> Null]

InitLedgers == {<<>>, <<StoredHolding(0 - 1)>>}
InitSettings == {DEFAULT_SETTINGS, [DEFAULT_SETTINGS EXCEPT !.apiKey = "k"]}

\* what an earlier session left in storage: nothing, or what it saved
InitStorage ==
    {[holdings |-> h, settings |-> s] :
        h \in {Absent} \cup {StringifyHoldings(l) : l \in InitLedgers \ {<<>>}},
        s \in {Absent} \cup
              {StringifySettings(x) : x \in InitSettings \ {DEFAULT_SETTINGS}}}

Init ==
    /\ mounted = FALSE
    /\ storage \in InitStorage
    /\ holdings = StartUp(storage.holdings, storage.settings).holdings.rows
    /\ settings = StartUp(storage.holdings, storage.settings).settings.fields
    /\ loadingPrices = FALSE
    /\ lastUpdated = Null
    /\ timers = {}
    /\ intervalRef = Null
    /\ inflight = [s \in Slots |-> None]
    /\ now = 0
    /\ lastDone = None
    /\ call = None

ApiKeys == {"", "k"}

\* the answers the scheduler is explored with: a failure and two prices
SchedResponses ==
    {Resp("neterr", <<>>, 0), Resp("str", <<"1">>, 0), Resp("str", <<"2">>, 0)}

Next ==
    \/ Mount
    \/ \E v \in ApiKeys : UpdateSetting("apiKey", v)
    \/ \E t \in timers : TimerTick(t)
    \/ ManualRefresh
    \/ \E s \in Busy : \E i \in DOMAIN inflight[s].snap :
          \E r \in SchedResponses : SettleFetch(s, i, r)
    \/ Len(holdings) < MaxRows /\ AddHolding(<<"b">>, <<"1">>, <<"1">>)
    \/ \E id \in {holdings[i].id : i \in DOMAIN holdings} : RemoveHolding(id)
    \/ ResetData
    \/ ClockTick

Spec == Init /\ [][Next]_vars

-----------------------------------------------------------------------------
(* Specification of the ledger edits: addHolding on every form input *)

NumberChars == {"-", "0", "1", "x"}
NumberInputs == SeqsUpTo(NumberChars, MaxStrLen)
SymbolInputs == {<<>>, <<"b">>}

LedgerNext ==
    \/ Mount
    \/ /\ Len(holdings) < MaxLedger
       /\ \E sym \in SymbolInputs, q \in NumberInputs, p \in NumberInputs :
             AddHolding(sym, q, p)
    \/ \E id \in {holdings[i].id : i \in DOMAIN holdings} : RemoveHolding(id)
    \/ ResetData
    \/ ClockTick

LedgerSpec == Init /\ [][LedgerNext]_vars

-----------------------------------------------------------------------------
(* Specification of fetchPrice as a function of its inputs *)

FetchSymbols == {<<"B">>, <<"B", ".", "J", "K">>}
FetchSettings ==
    {[provider |-> pr, apiKey |-> k, priceSuffix |-> sf,
      refreshIntervalSec |-> Num(60)] :
        pr \in {"twelvedata", "other"}, k \in ApiKeys,
        sf \in {<<>>, <<".", "J", "K">>}}

FetchInit ==
    /\ mounted = FALSE
    /\ holdings = <<>>
    /\ settings = DEFAULT_SETTINGS
    /\ loadingPrices = FALSE
    /\ lastUpdated = Null
    /\ timers = {}
    /\ intervalRef = Null
    /\ inflight = [s \in Slots |-> None]
    /\ now = 0
    /\ storage = SaveEffects([holdings |-> Absent, settings |-> Absent], TRUE, TRUE,
                             holdings, settings)
    /\ lastDone = None
    /\ call \in {[fn |-> "fetchPrice", symbol |-> sym, sett |-> st, resp |-> r,
                  out |-> None] :
                    sym \in FetchSymbols, st \in FetchSettings, r \in Responses}

CallFetchPrice ==
    /\ call # None
    /\ call.fn = "fetchPrice"
    /\ call.out = None
    /\ call' = [call EXCEPT !.out = FetchPrice(call.symbol, call.sett, call.resp)]
    /\ UNCHANGED sched

FetchNext == CallFetchPrice

FetchSpec == FetchInit /\ [][FetchNext]_vars

-----------------------------------------------------------------------------
(* Specification of refresh cycles over a two-row ledger, every fetch of a *)
(* cycle in flight eventually answered                                     *)

CycleInit ==
    /\ mounted = FALSE
    /\ holdings = <<StoredHolding(0 - 1), StoredHolding(0 - 2)>>
    /\ settings \in InitSettings
    /\ loadingPrices = FALSE
    /\ lastUpdated = Null
    /\ timers = {}
    /\ intervalRef = Null
    /\ inflight = [s \in Slots |-> None]
    /\ now = 0
    /\ storage = SaveEffects([holdings |-> Absent, settings |-> Absent], TRUE, TRUE,
                             holdings, settings)
    /\ lastDone = None
    /\ call = None

\* the answers the cycles are explored with: a failure and a price
CycleResponses == {Resp("non2xx", <<>>, 0), Resp("num", <<>>, 1)}

Answer(s, i) == \E r \in CycleResponses : SettleFetch(s, i, r)

CycleNext ==
    \/ Mount
    \/ \E v \in ApiKeys : UpdateSetting("apiKey", v)
    \/ \E t \in timers : TimerTick(t)
    \/ ManualRefresh
    \/ \E s \in Busy : \E i \in DOMAIN inflight[s].snap : Answer(s, i)

CycleSpec ==
    /\ CycleInit
    /\ [][CycleNext]_vars
    /\ \A s \in Slots : \A i \in 1 .. 2 : WF_vars(Answer(s, i))

-----------------------------------------------------------------------------
(* Aggregations, recomputed from the ledger on every render *)

\* x || 0 on a number: a zero (or NaN) product contributes 0
OrZero(x) == IF x = 0 THEN 0 ELSE x

\* h.lastPrice || h.priceBuy: a quoted price of 0 falls back to the buy price
ValueNowOr(h) ==
    h.qty * (IF h.lastPrice # Null /\ h.lastPrice[1] # 0
             THEN h.lastPrice[1] ELSE h.priceBuy)

\* h.qty * (h.lastPrice ?? h.priceBuy)
ValueNow(h) ==
    h.qty * (IF h.lastPrice # Null THEN h.lastPrice[1] ELSE h.priceBuy)

RECURSIVE ReduceModal(_, _, _)
\* holdings.reduce((acc, h) => acc + (h.qty * h.priceBuy || 0), acc0) from row i
ReduceModal(hs, i, acc) ==
    IF i > Len(hs) THEN acc
    ELSE ReduceModal(hs, i + 1, acc + OrZero(hs[i].qty * hs[i].priceBuy))

TotalModal(hs) == ReduceModal(hs, 1, 0)

RECURSIVE ReduceValue(_, _, _)
\* holdings.reduce((acc, h) => acc + (h.qty * (h.lastPrice ?? h.priceBuy) || 0), acc0)
ReduceValue(hs, i, acc) ==
    IF i > Len(hs) THEN acc
    ELSE ReduceValue(hs, i + 1, acc + OrZero(ValueNow(hs[i])))

TotalValue(hs) == ReduceValue(hs, 1, 0)

TotalPL(hs) == TotalValue(hs) - TotalModal(hs)

\* a quotient num / den kept exact; a plain number n is n / 1
Quot(num, den) == [num |-> num, den |-> den]

\* equality of two quotients with non-zero denominators
QuotEq(a, b) == a.num * b.den = b.num * a.den

\* totalModal ? totalPL / totalModal : 0, the test being JavaScript truthiness
TotalPLPercent(hs) ==
    IF TotalModal(hs) # 0 THEN Quot(TotalPL(hs), TotalModal(hs)) ELSE Quot(0, 1)

\* one entry per symbol, the rows of a symbol added up
CompositionBySymbol(hs) ==
    LET first == {i \in DOMAIN hs : \A j \in 1 .. i - 1 : hs[j].symbol # hs[i].symbol}
        RECURSIVE Group(_, _)
        Group(i, acc) ==
            IF i > Len(hs) THEN acc
            ELSE IF i \in first
            THEN Group(i + 1, Append(acc,
                     [name |-> hs[i].symbol,
                      value |-> TotalValue(SelectSeq(hs,
                                    LAMBDA h : h.symbol = hs[i].symbol))]))
            ELSE Group(i + 1, acc)
    IN  Group(1, <<>>)

\* holdings.map((h) => ({ name: h.symbol, value: h.qty * (h.lastPrice ?? h.priceBuy) }))
CompositionData(hs) ==
    [i \in DOMAIN hs |-> [name |-> hs[i].symbol, value |-> ValueNow(hs[i])]]

\* holdings.map((h) => ({ name: h.symbol, profit: value now - qty * priceBuy }))
ProfitBars(hs) ==
    [i \in DOMAIN hs |->
        [name |-> hs[i].symbol,
         profit |-> ValueNow(hs[i]) - hs[i].qty * hs[i].priceBuy]]

\* everything one render derives from the ledger
Render(hs) ==
    [totalModal |-> TotalModal(hs),
     totalValue |-> TotalValue(hs),
     totalPL |-> TotalPL(hs),
     totalPLPercent |-> TotalPLPercent(hs),
     compositionData |-> CompositionData(hs),
     profitBars |-> ProfitBars(hs)]

-----------------------------------------------------------------------------
(* Specification of one render over a ledger drawn from bounded rows *)

MaxRenderRows == 2

RenderSymbols == {<<"B">>, <<"C">>}
RenderQtys == {0 - 1, 1, 2}
RenderPrices == {1, 3}
RenderLastPrices == {Null, Some(0), Some(2)}

RenderRows ==
    [id : {0}, symbol : RenderSymbols, qty : RenderQtys, priceBuy : RenderPrices,
     totalBuy : {0}, lastPrice : RenderLastPrices]

RenderLedgers ==
    {[i \in DOMAIN hs |-> [hs[i] EXCEPT !.id = i, !.totalBuy = hs[i].qty * hs[i].priceBuy]] :
        hs \in SeqsUpTo(RenderRows, MaxRenderRows)}

RenderInit ==
    /\ mounted = FALSE
    /\ holdings = <<>>
    /\ settings = DEFAULT_SETTINGS
    /\ loadingPrices = FALSE
    /\ lastUpdated = Null
    /\ timers = {}
    /\ intervalRef = Null
    /\ inflight = [s \in Slots |-> None]
    /\ now = 0
    /\ storage = SaveEffects([holdings |-> Absent, settings |-> Absent], TRUE, TRUE,
                             holdings, settings)
    /\ lastDone = None
    /\ call \in {[fn |-> "render", holdings |-> hs, out |-> None] : hs \in RenderLedgers}

CallRender ==
    /\ call # None
    /\ call.fn = "render"
    /\ call.out = None
    /\ call' = [call EXCEPT !.out = Render(call.holdings)]
    /\ UNCHANGED sched

RenderNext == CallRender

RenderSpec == RenderInit /\ [][RenderNext]_vars

-----------------------------------------------------------------------------
(* Specification of the valuation: ledger edits on signed quantities *)
(* interleaved with refresh cycles                                   *)

ValuationQtys == {<<"1">>, <<"-", "1">>}

ValuationNext ==
    \/ Mount
    \/ ManualRefresh
    \/ \E s \in Busy : \E i \in DOMAIN inflight[s].snap :
          \E r \in CycleResponses : SettleFetch(s, i, r)
    \/ /\ Len(holdings) < MaxRows
       /\ \E q \in ValuationQtys : AddHolding(<<"b">>, q, <<"2">>)
    \/ \E id \in {holdings[i].id : i \in DOMAIN holdings} : RemoveHolding(id)
    \/ ResetData

ValuationSpec == Init /\ [][ValuationNext]_vars

-----------------------------------------------------------------------------
(* Specification of the start-up on every stored string *)

StoredHoldingsTexts ==
    {Absent, EmptyText, Garbage, Text(JNull), Text(JNumber), Text(JObj(<<>>))}
    \cup {StringifyHoldings(l) : l \in InitLedgers}

StoredSettingsTexts ==
    {Absent, EmptyText, Garbage, Text(JNull), Text(JNumber), Text(JArr(<<>>))}
    \cup {StringifySettings(x) : x \in InitSettings}

LoadInit ==
    /\ mounted = FALSE
    /\ holdings = <<>>
    /\ settings = DEFAULT_SETTINGS
    /\ loadingPrices = FALSE
    /\ lastUpdated = Null
    /\ timers = {}
    /\ intervalRef = Null
    /\ inflight = [s \in Slots |-> None]
    /\ now = 0
    /\ lastDone = None
    /\ storage \in [holdings : StoredHoldingsTexts, settings : StoredSettingsTexts]
    /\ call = [fn |-> "startUp", out |-> None]

CallStartUp ==
    /\ call # None
    /\ call.fn = "startUp"
    /\ call.out = None
    /\ call' = [call EXCEPT !.out = StartUp(storage.holdings, storage.settings)]
    /\ UNCHANGED sched

LoadNext == CallStartUp

LoadSpec == LoadInit /\ [][LoadNext]_vars

-----------------------------------------------------------------------------
(* Specification of the settings inputs, with the ledger edits and the *)
(* refresh cycles that run beside them                                 *)

\* what the number input of line 354 can hold: nothing, or a valid number
IntervalInputs == {<<>>, <<"0">>, <<"2">>, <<"-", "2">>, <<".", "2">>}

PriceSuffixes == {<<>>, <<".", "J", "K">>}

\* the onChange handler of line 354
ChangeInterval(input) ==
    UpdateSetting("refreshIntervalSec",
                  ParseInt(IF input = <<>> THEN <<"6", "0">> ELSE input))

SettingsNext ==
    \/ Mount
    \/ \E v \in ApiKeys : UpdateSetting("apiKey", v)
    \/ \E v \in PriceSuffixes : UpdateSetting("priceSuffix", v)
    \/ \E input \in IntervalInputs : ChangeInterval(input)
    \/ ManualRefresh
    \/ \E s \in Busy : \E i \in DOMAIN inflight[s].snap :
          \E r \in CycleResponses : SettleFetch(s, i, r)
    \/ Len(holdings) < MaxRows /\ AddHolding(<<"b">>, <<"1">>, <<"1">>)
    \/ \E id \in {holdings[i].id : i \in DOMAIN holdings} : RemoveHolding(id)
    \/ ResetData

SettingsSpec == Init /\ [][SettingsNext]_vars

-----------------------------------------------------------------------------
(* Properties *)

SameRow(a, b, i) == i \in DOMAIN a /\ i \in DOMAIN b /\ a[i].id = b[i].id

\* C1: a refresh cycle never sets a non-null lastPrice back to null while the
\* holding stays in the ledger.  Stated on the step that completes a cycle:
\* every row that had a price before the write and is still the same row
\* after it has a price after it.
C1_PriceNeverCleared ==
    lastDone # None =>
        \A i \in DOMAIN lastDone.prev :
            (lastDone.prev[i].lastPrice # Null /\ SameRow(holdings, lastDone.prev, i))
                => holdings[i].lastPrice # Null

\* C2: after a cycle that ran in isolation (no other cycle in flight, no edit
\* of the ledger during it) every holding the cycle fetched for, and that the
\* ledger held before and holds after, has the fetched price if its fetch
\* succeeded and the lastPrice the ledger held for it before the cycle if its
\* fetch was Unavailable.
C2_IsolatedCycleMerge ==
    (lastDone # None /\ ~lastDone.overlapped /\ ~lastDone.edited) =>
        \A i \in DOMAIN lastDone.prices :
            SameRow(holdings, lastDone.prev, i) =>
                holdings[i].lastPrice =
                    IF lastDone.prices[i] # Null THEN lastDone.prices[i]
                    ELSE lastDone.prev[i].lastPrice

\* C3: every refresh cycle takes as its snapshot the ledger as it is when the
\* cycle starts: a cycle that goes in flight in a step, or that runs to
\* completion within the step, has the ledger of the step's first state as
\* its snapshot.
C3_SnapshotIsCurrentLedger ==
    [][/\ \A s \in Slots :
            (inflight[s] = None /\ inflight'[s] # None)
                => inflight'[s].snap = holdings
       /\ (lastDone' # None /\ \A s \in Slots : inflight[s] = None <=> inflight'[s] = None)
                => lastDone'.snap = holdings]_vars

\* C4: every holding of the ledger has qty > 0 and priceBuy > 0, addHolding
\* having rejected every other input.
C4_PositiveQtyAndPrice ==
    \A i \in DOMAIN holdings : holdings[i].qty > 0 /\ holdings[i].priceBuy > 0

\* C5: no two holdings of the ledger share an id.
C5_UniqueIds ==
    \A i \in DOMAIN holdings : \A j \in DOMAIN holdings :
        i # j => holdings[i].id # holdings[j].id

\* C6: at most one interval timer is armed at any time, exactly one once the
\* component is mounted; it is the one intervalRef holds, and it was armed under
\* the current settings, so no timer of earlier settings is left to fire.
C6_AtMostOneTimer ==
    /\ Cardinality(timers) <= 1
    /\ mounted => Cardinality(timers) = 1
    /\ \A t \in timers : t.sett = settings /\ intervalRef = Some(t.handle)

\* C6 witness: the armed timer's closure holds a row added in this session,
\* so it was armed by a settings change after the mount.
C6_Rearmed ==
    /\ Cardinality(timers) = 1
    /\ \E t \in timers : \E i \in DOMAIN t.snap : t.snap[i].id >= 0

\* C7: a refresh request (manual or timer) that finds a cycle in flight and
\* has fetches to issue starts one more cycle at once; and the ledger a
\* completing cycle writes is its own snapshot with its own fetch results
\* merged in, whatever the ledger held before.
C7_OwnSnapshotWritten ==
    lastDone # None =>
        /\ Len(holdings) = Len(lastDone.snap)
        /\ \A i \in DOMAIN holdings :
              holdings[i] =
                 [lastDone.snap[i] EXCEPT !.lastPrice =
                     IF lastDone.prices[i] # Null THEN lastDone.prices[i]
                     ELSE lastDone.snap[i].lastPrice]

C7_StartsConcurrently ==
    /\ (Busy # {} /\ Len(holdings) > 0 /\ IssuesCall(settings) /\ ManualRefresh)
          => \E s \in Slots :
                /\ inflight[s] = None /\ inflight'[s] # None
                /\ \A r \in Busy : inflight'[r] # None
    /\ \A t \in timers :
          (Busy # {} /\ Len(t.snap) > 0 /\ IssuesCall(t.sett) /\ TimerTick(t))
             => \E s \in Slots :
                   /\ inflight[s] = None /\ inflight'[s] # None
                   /\ \A r \in Busy : inflight'[r] # None

C7_OverlapLastWriterWins == [][C7_StartsConcurrently]_vars /\ []C7_OwnSnapshotWritten

\* C7 witness: a cycle that overlapped another one completes and replaces a
\* price of the ledger by the null of its own snapshot.
C7_Clobbered ==
    /\ lastDone # None /\ lastDone.overlapped /\ ~lastDone.edited
    /\ \E i \in DOMAIN holdings :
          /\ SameRow(holdings, lastDone.prev, i)
          /\ lastDone.prev[i].lastPrice # Null
          /\ lastDone.snap[i].lastPrice = Null
          /\ holdings[i].lastPrice = Null

\* C8: fetchPrice never throws; it returns null or a number; it returns null
\* for an unrecognized provider and for an empty apiKey, and with an empty
\* apiKey no network call is made.
C8_FetchPriceNeverThrows ==
    (call # None /\ call.fn = "fetchPrice" /\ call.out # None) =>
        /\ ~call.out.threw
        /\ \/ call.out.value = Null
           \/ Len(call.out.value) = 1 /\ call.out.value[1] \in Int
        /\ call.sett.provider # "twelvedata" => call.out.value = Null
        /\ call.sett.apiKey = "" => call.out.value = Null /\ ~call.out.called

\* C8 witness: the transport failed and fetchPrice returned null.
C8_TransportFailed ==
    /\ call # None /\ call.fn = "fetchPrice" /\ call.out # None
    /\ call.resp.kind = "neterr" /\ call.out.called
    /\ ~call.out.threw /\ call.out.value = Null

\* C9: every cycle in flight, its fetches being answered, completes: the step
\* that frees its slot has written the merged ledger, recorded the completion
\* time and cleared the loading indicator.
C9_CycleCompletes ==
    \A s \in Slots :
        (inflight[s] # None) ~>
            /\ inflight[s] = None
            /\ lastDone # None
            /\ Len(holdings) = Len(lastDone.snap)
            /\ lastUpdated = Some(now)
            /\ loadingPrices = FALSE

\* C9 witness: a cycle completed with one fetch Unavailable and one price,
\* after the apiKey it was started with had been emptied by a settings change.
C9_CompletedAcrossSettingsChange ==
    /\ lastDone # None
    /\ \E i \in DOMAIN lastDone.prices : lastDone.prices[i] = Null
    /\ \E i \in DOMAIN lastDone.prices :
          lastDone.prices[i] # Null /\ holdings[i].lastPrice = lastDone.prices[i]
    /\ settings.apiKey = ""
    /\ lastUpdated = Some(now) /\ loadingPrices = FALSE

\* C10: a refresh requested on an empty snapshot (by the mount, a settings
\* change, a manual request, or a tick of a timer whose closure holds the
\* empty ledger) changes neither the loading indicator, the cycles in flight,
\* the ledger nor the completion time.
EmptyRequest ==
    \/ Len(holdings) = 0 /\ Mount
    \/ Len(holdings) = 0 /\ ManualRefresh
    \/ Len(holdings) = 0 /\ \E v \in ApiKeys : UpdateSetting("apiKey", v)
    \/ \E t \in timers : Len(t.snap) = 0 /\ TimerTick(t)

C10_EmptyLedgerNoop ==
    [][EmptyRequest => UNCHANGED <<holdings, loadingPrices, lastUpdated, inflight>>]_vars

\* C10 witness: the component mounted on the empty ledger: nothing loading,
\* nothing in flight, no completion time.
C10_MountedOnEmpty ==
    /\ mounted /\ holdings = <<>>
    /\ ~loadingPrices /\ lastUpdated = Null /\ Busy = {}

Rendered == call # None /\ call.fn = "render" /\ call.out # None

\* C11: for every ledger, totalModal is the sum of qty * priceBuy over the rows
\* whatever their lastPrice, totalValue is the sum of qty * (lastPrice when it
\* is non-null, priceBuy otherwise), totalPL is their difference, and a ledger
\* whose rows all have a null lastPrice has totalValue = totalModal, totalPL = 0.
C11_Totals ==
    Rendered =>
        LET hs == call.holdings
            o == call.out
            cost[n \in 0 .. Len(hs)] ==
                IF n = 0 THEN 0 ELSE cost[n - 1] + hs[n].qty * hs[n].priceBuy
            worth[n \in 0 .. Len(hs)] ==
                IF n = 0 THEN 0
                ELSE worth[n - 1]
                     + (IF hs[n].lastPrice = Null
                        THEN hs[n].qty * hs[n].priceBuy
                        ELSE hs[n].qty * hs[n].lastPrice[1])
        IN  /\ o.totalModal = cost[Len(hs)]
            /\ o.totalValue = worth[Len(hs)]
            /\ o.totalPL = o.totalValue - o.totalModal
            /\ (\A i \in DOMAIN hs : hs[i].lastPrice = Null)
                   => o.totalValue = o.totalModal /\ o.totalPL = 0

\* a two-row ledger with one quoted and one unquoted row has been rendered
C11_MixedLedgerRendered ==
    /\ Rendered
    /\ Len(call.holdings) = 2
    /\ call.holdings[1].lastPrice = Some(2)
    /\ call.holdings[2].lastPrice = Null
    /\ call.out.totalPL # 0

\* C12: in every reachable ledger, the empty one included, totalPLPercent is
\* totalPL / totalModal exactly when totalModal > 0 and is 0 otherwise, and no
\* division by zero is evaluated.
C12_PercentOnlyOverPositiveModal ==
    LET m == TotalModal(holdings)
        p == TotalPLPercent(holdings)
    IN  /\ p.den # 0
        /\ QuotEq(p, IF m > 0 THEN Quot(TotalPL(holdings), m) ELSE Quot(0, 1))

Started == call # None /\ call.fn = "startUp" /\ call.out # None

\* the stored string is the JSON text of a value of the given type
IsTextOf(raw, t) == raw.kind = "json" /\ raw.value.t = t

\* C13: whatever string is stored under either key at start-up (none, one
\* that does not parse, or one that parses to something that is not a ledger
\* or a settings record, such as null), loading never crashes, and yields the
\* empty ledger, respectively the default settings, unless the string is the
\* text of a ledger, respectively of a settings record.
C13_LoadDegradesToDefaults ==
    Started =>
        /\ ~call.out.crashed
        /\ ~IsTextOf(storage.holdings, "array")
               => call.out.holdings = JArr(<<>>)
        /\ ~IsTextOf(storage.settings, "object")
               => call.out.settings = JObj(DEFAULT_SETTINGS)

\* C14: once a mutation of the ledger or the settings (addHolding,
\* removeHolding, a refresh merge, Reset Data, updateSetting) has been
\* processed, the string stored under each key is the text of the value in
\* memory: parsing it gives back the ledger, respectively the settings.
C14_StoredEqualsMemory ==
    mounted =>
        /\ storage.holdings = Text(JArr(holdings))
        /\ storage.settings = Text(JObj(settings))

\* C17: after any sequence of updateSetting calls made through the settings
\* inputs (an empty, a zero or a negative interval input included),
\* settings.refreshIntervalSec is a positive integer in every reachable
\* state, and once mounted a timer is armed and its period is positive.
C17_IntervalStaysPositive ==
    /\ ~settings.refreshIntervalSec.nan
    /\ settings.refreshIntervalSec.v > 0
    /\ mounted => timers # {} /\ \A t \in timers : t.period > 0

\* C15: the symbol sent to the provider is the holding's symbol followed by
\* the configured price suffix when the symbol contains no '.', and the
\* symbol unchanged when it contains one; B with the suffix .JK is sent as
\* B.JK.
C15_QuerySymbolNormalized ==
    (call # None /\ call.fn = "fetchPrice" /\ call.out # None /\ call.out.called) =>
        LET q == call.out.query[1]
            dotted == \E i \in DOMAIN call.symbol : call.symbol[i] = "."
        IN  /\ ~dotted =>
                /\ Len(q) = Len(call.symbol) + Len(call.sett.priceSuffix)
                /\ SubSeq(q, 1, Len(call.symbol)) = call.symbol
                /\ SubSeq(q, Len(call.symbol) + 1, Len(q)) = call.sett.priceSuffix
            /\ dotted => q = call.symbol
            /\ (call.symbol = <<"B">> /\ call.sett.priceSuffix = <<".", "J", "K">>)
                   => q = <<"B", ".", "J", "K">>

\* C15 witness: a symbol that already carries a suffix was sent unchanged
\* although a suffix is configured.
C15_DottedSymbolSent ==
    /\ call # None /\ call.fn = "fetchPrice" /\ call.out # None
    /\ call.out.called
    /\ call.symbol = <<"B", ".", "J", "K">>
    /\ call.sett.priceSuffix = <<".", "J", "K">>
    /\ call.out.query = Some(<<"B", ".", "J", "K">>)

\* qty * (lastPrice when it is non-null, priceBuy otherwise) of a row
RowWorth(h) == IF h.lastPrice = Null THEN h.qty * h.priceBuy
               ELSE h.qty * h.lastPrice[1]

\* the composition list has one entry per row of the ledger, in ledger order,
\* named by the row's symbol and valued at the row's worth, and its values
\* add up to totalValue
CompositionPerRow ==
    LET hs == call.holdings
        comp == call.out.compositionData
        sum[n \in 0 .. Len(comp)] == IF n = 0 THEN 0 ELSE sum[n - 1] + comp[n].value
    IN  /\ Len(comp) = Len(hs)
        /\ \A i \in DOMAIN hs :
              comp[i].name = hs[i].symbol /\ comp[i].value = RowWorth(hs[i])
        /\ sum[Len(comp)] = call.out.totalValue

\* C16 as stated: for every ledger, several holdings of one symbol included,
\* the composition list and the profit list each have exactly one entry per
\* holding, in ledger order, with value qty * (lastPrice if non-null else
\* priceBuy); rows sharing a symbol are never merged, and the composition
\* values sum to totalValue.
C16_BothSeriesCarryWorth ==
    Rendered =>
        /\ CompositionPerRow
        /\ Len(call.out.profitBars) = Len(call.holdings)
        /\ \A i \in DOMAIN call.holdings :
              /\ call.out.profitBars[i].name = call.holdings[i].symbol
              /\ call.out.profitBars[i].profit = RowWorth(call.holdings[i])

\* C16 amended: for every ledger, several holdings of one symbol included,
\* the composition list and the profit list each have exactly one entry per
\* holding, in ledger order; the composition entry has the value qty *
\* (lastPrice if non-null else priceBuy), the profit entry has that value
\* minus qty * priceBuy; rows sharing a symbol are never merged, and the
\* composition values sum to totalValue.
C16_SeriesPerRow ==
    Rendered =>
        /\ CompositionPerRow
        /\ Len(call.out.profitBars) = Len(call.holdings)
        /\ \A i \in DOMAIN call.holdings :
              /\ call.out.profitBars[i].name = call.holdings[i].symbol
              /\ call.out.profitBars[i].profit =
                     RowWorth(call.holdings[i])
                     - call.holdings[i].qty * call.holdings[i].priceBuy

\* C16 witness: a ledger of two holdings of one symbol was rendered into two
\* composition entries and two profit entries.
C16_TwoLotsOfOneSymbol ==
    /\ Rendered
    /\ Len(call.holdings) = 2
    /\ call.holdings[1].symbol = call.holdings[2].symbol
    /\ Len(call.out.compositionData) = 2
    /\ Len(call.out.profitBars) = 2
    /\ call.out.profitBars[1].profit # 0

\* C18: the write of a refresh cycle changes nothing in the ledger except
\* lastPrice values, whatever addHolding, removeHolding and Reset Data did
\* while the cycle was in flight: the ledger after the write has the rows it
\* had just before it (a holding added before the write is still there, a
\* removed one does not reappear), in the same order, with the same id,
\* symbol, qty, priceBuy and totalBuy.
C18_MergeWritesOnlyPrices ==
    lastDone # None =>
        /\ Len(holdings) = Len(lastDone.prev)
        /\ \A i \in DOMAIN holdings :
              i \in DOMAIN lastDone.prev
              /\ holdings[i] =
                     [lastDone.prev[i] EXCEPT !.lastPrice = holdings[i].lastPrice]

\* C19: in every reachable state loadingPrices is true when at least one
\* refresh cycle is in flight (fetches issued, merge not yet written) and
\* false when none is, overlapping cycles included.
C19_LoadingIffCycleInFlight == loadingPrices <=> Busy # {}

====
